---- MODULE Spec2Model ----
(***************************************************************************)
(* Model of src/app.py: a Flask application that forwards questions to a   *)
(* completion provider and keeps a per-session chat history in the         *)
(* process-wide variable chat_histories.                                   *)
(*                                                                         *)
(* Each worker thread of the server handles one request at a time.  The    *)
(* handler of /ask is split at the points where it reads or writes the     *)
(* shared variable chat_histories and at the blocking provider call; the   *)
(* other handlers are one step each.                                       *)
(*                                                                         *)
(* Strings that the code builds (the context, the error messages) are      *)
(* sequences of tokens: concatenation is \o, a caller-supplied text is one *)
(* token.                                                                  *)
(***************************************************************************)
EXTENDS Integers, Sequences, FiniteSets, TLC

VARIABLES
    chat_histories,           \* the global of app.py:30
    now,                      \* the clock read by datetime.datetime.now()
    pc,                       \* per thread: where its handler stands
    data,                     \* per thread: the body of the POST /ask received
    question,                 \* per thread: local `question` of ask_question
    session_id,               \* per thread: local `session_id` of ask_question
    contextualized_question,  \* per thread: the text handed to chain.invoke
    answer,                   \* per thread: response.content
    response,                 \* per thread: the response to its last request
    provided                  \* history variable: per session, the (question,
                              \* answer) pairs of the provider calls that
                              \* succeeded since the store was last replaced

vars == <<chat_histories, now, pc, data, question, session_id,
          contextualized_question, answer, response, provided>>

-----------------------------------------------------------------------------
(* Bounds of the model and constants of the program *)

MAX_HISTORY_LENGTH == 10

\* Spec: a POST /ask is accepted only while the turns appended so far and the
\* POST /ask still being handled are fewer than this.
MaxAppends == 2

\* SpecSeq: the same bound for one client with every kind of input.
MaxSeqAppends == 3

\* SpecLong: the same bound for one client with few inputs and long runs.
MaxLongAppends == 11

Threads == {"t1", "t2"}

DEFAULT_SESSION == "default_session"

Sessions == {DEFAULT_SESSION, "s1"}

Questions == {"q1", "q2"}

Answers == {"a1", "a2"}

\* Messages of the exceptions the provider call can raise.
ProviderErrors == {"Connection error."}

\* Values uuid.uuid4() can return.
Uuids == {"uuid-a", "uuid-b"}

\* Marks a key that a JSON object / a query string does not have.
NoField == "<absent>"

\* Marks a local that holds nothing.
None == "<none>"

-----------------------------------------------------------------------------
(* Request bodies: what request.get_json() has to work with *)

Body(kind, q, s, elems, num) ==
    [kind |-> kind, question |-> q, session_id |-> s, elems |-> elems, num |-> num]

NoBody == Body("none", NoField, NoField, <<>>, 0)

\* a body that is not JSON at all
Malformed == Body("malformed", NoField, NoField, <<>>, 0)

\* the JSON value null
JsonNull == Body("null", NoField, NoField, <<>>, 0)

\* a JSON object with (possibly) the keys question and session_id
JsonObject(q, s) == Body("object", q, s, <<>>, 0)

\* a JSON array of strings
JsonArray(elems) == Body("array", NoField, NoField, elems, 0)

\* a JSON string, as the sequence of its words
JsonString(words) == Body("string", NoField, NoField, words, 0)

\* a JSON number
JsonNumber(n) == Body("number", NoField, NoField, <<>>, n)

ValidBodies == { JsonObject(q, s) : q \in Questions, s \in Sessions \cup {NoField} }

InvalidBodies ==
    { Malformed, JsonNull, JsonObject(NoField, NoField), JsonObject(NoField, "s1"),
      JsonArray(<<"question">>), JsonArray(<<"other">>),
      JsonString(<<"a", "question", "mark">>), JsonNumber(5) }

Bodies == ValidBodies \cup InvalidBodies

\* SpecLong: one question text, both ways of naming a session, one bad body.
LongBodies ==
    { JsonObject("q1", NoField), JsonObject("q1", "s1"), JsonObject(NoField, NoField) }

\* Python truthiness of the parsed body (`not data`, app.py:100)
Falsy(d) ==
    \/ d.kind = "null"
    \/ d.kind = "object" /\ d.question = NoField /\ d.session_id = NoField
    \/ d.kind \in {"array", "string"} /\ d.elems = <<>>
    \/ d.kind = "number" /\ d.num = 0

\* Python `key in data` (app.py:100): a key of an object, an element of an
\* array, a substring of a string.  A number is not iterable: see AskValidate.
Contains(d, key) ==
    CASE d.kind = "object" ->
           \/ key = "question" /\ d.question # NoField
           \/ key = "session_id" /\ d.session_id # NoField
      [] d.kind \in {"array", "string"} ->
           \E i \in 1..Len(d.elems) : d.elems[i] = key
      [] OTHER -> FALSE

-----------------------------------------------------------------------------
(* The store: chat_histories is a dict (app.py:30) or a list (app.py:221) *)

EmptyDict == [type |-> "dict", keys |-> <<>>, vals |-> <<>>]

EmptyList == [type |-> "list", keys |-> <<>>, vals |-> <<>>]

KeySet(store) == { store.keys[i] : i \in 1..Len(store.keys) }

\* `session_id in chat_histories`: a key of the dict, an element of the list
\* (the list is only ever empty)
In(sid, store) ==
    IF store.type = "dict" THEN sid \in KeySet(store) ELSE FALSE

\* len(chat_histories)
StoreLen(store) == Len(store.keys)

\* an initialisation that assigns a new dict holding only this session
SetEmptyReplacing(store, sid) ==
    [type |-> "dict", keys |-> <<sid>>, vals |-> (sid :> <<>>)]

\* chat_histories[session_id] = [] on a dict: a new key goes last, an existing
\* key keeps its place and gets the new value
SetEmpty(store, sid) ==
    IF sid \in KeySet(store)
    THEN [store EXCEPT !.vals = [store.vals EXCEPT ![sid] = <<>>]]
    ELSE [store EXCEPT !.keys = Append(store.keys, sid),
                       !.vals = (sid :> <<>>) @@ store.vals]

Turn(q, a, ts) == [question |-> q, answer |-> a, timestamp |-> ts]

\* an append that leaves a full list as it is
AppendTurnUnlessFull(store, sid, turn) ==
    IF Len(store.vals[sid]) >= MAX_HISTORY_LENGTH
    THEN store
    ELSE [store EXCEPT !.vals = [store.vals EXCEPT ![sid] = Append(@, turn)]]

\* chat_histories[session_id].append(turn) on a dict that has the key
AppendTurn(store, sid, turn) ==
    [store EXCEPT !.vals = [store.vals EXCEPT ![sid] = Append(@, turn)]]

\* what /history shows for a session: its turns, none if it has no entry
HistoryOf(store, sid) ==
    IF In(sid, store) THEN store.vals[sid] ELSE <<>>

-----------------------------------------------------------------------------
(* Responses *)

NoResponse ==
    [endpoint |-> None, status |-> 0, json |-> TRUE, error |-> <<>>, answer |-> None, ok |-> None,
     session_id |-> None, history |-> <<>>, count |-> -1, sessions |-> <<>>]

\* jsonify({"error": ...}), status
ErrorBody(status, text) ==
    [NoResponse EXCEPT !.endpoint = "ask", !.status = status, !.error = text]

MISSING_QUESTION == <<"Missing 'question' in request body">>

\* the two except clauses of ask_question
ErrorResponse(etype, msg) ==
    IF etype = "KeyError"
    THEN ErrorBody(500, <<"KeyError: ", msg>>)
    ELSE ErrorBody(500, <<"Unexpected error: ", etype, ": ", msg>>)

\* the 200 response of ask_question
AskSuccess(a, sid, history) ==
    [NoResponse EXCEPT !.endpoint = "ask", !.status = 200, !.answer = a,
                       !.ok = "success", !.session_id = sid, !.history = history]

\* Flask's answer when a view function lets an exception escape: an HTML
\* error page (the debugger's, with debug=True), not a JSON body
UncaughtResponse(endpoint) ==
    [NoResponse EXCEPT !.endpoint = endpoint, !.status = 500, !.json = FALSE]

-----------------------------------------------------------------------------
(* The context handed to the provider *)

RECURSIVE RenderEntries(_)
\* the loop of app.py:118-119
RenderEntries(session_history) ==
    IF session_history = <<>> THEN <<>>
    ELSE <<"Human: ", session_history[1].question, "\nAI: ",
           session_history[1].answer, "\n">> \o RenderEntries(Tail(session_history))

\* app.py:115-119
Context(session_history) ==
    IF session_history # <<>>
    THEN <<"previous conversation:\n">> \o RenderEntries(session_history)
    ELSE <<>>

\* the same with the oldest stored turn left out
BuildContextDropOldest(session_history, q) ==
    IF Context(session_history) # <<>>
    THEN <<"previous conversation:\n">> \o RenderEntries(Tail(session_history))
             \o <<"Human: ", q>>
    ELSE <<q>>

\* app.py:115-124
BuildContext(session_history, q) ==
    IF Context(session_history) # <<>>
    THEN Context(session_history) \o <<"Human: ", q>>
    ELSE <<q>>

-----------------------------------------------------------------------------
(* Validation of the body of /ask *)

\* only the emptiness test of app.py:100
MissingQuestionFalsyOnly(d) == Falsy(d)

\* the condition of app.py:100, for a body `in` can be applied to
MissingQuestion(d) == Falsy(d) \/ ~Contains(d, "question")

Accept == [result |-> "accept", etype |-> None, msg |-> None]

Reject == [result |-> "reject", etype |-> None, msg |-> None]

Raise(etype, msg) == [result |-> "raise", etype |-> etype, msg |-> msg]

\* app.py:99-104: get_json, the test of line 100, data['question']
ValidateOutcome(d) ==
    IF d.kind = "malformed"
    THEN Raise("BadRequest", "400 Bad Request: Failed to decode JSON object")
    ELSE IF ~Falsy(d) /\ d.kind = "number"
    THEN Raise("TypeError", "argument of type 'int' is not iterable")
    ELSE IF MissingQuestion(d)
    THEN Reject
    ELSE IF d.kind # "object"
    THEN Raise("TypeError", "indices must be integers")
    ELSE IF d.question = NoField
    THEN Raise("KeyError", "'question'")
    ELSE Accept

\* a fallback to another session id than the one /history falls back to
ResolveSessionOtherDefault(d) ==
    IF d.session_id = NoField THEN "s1" ELSE d.session_id

\* d.get('session_id', 'default_session')
ResolveSession(d) ==
    IF d.session_id = NoField THEN DEFAULT_SESSION ELSE d.session_id

-----------------------------------------------------------------------------
(* Initial state: the module has been imported, no request has arrived *)

Init ==
    /\ chat_histories = EmptyDict
    /\ now = 0
    /\ pc = [t \in Threads |-> "Idle"]
    /\ data = [t \in Threads |-> NoBody]
    /\ question = [t \in Threads |-> None]
    /\ session_id = [t \in Threads |-> None]
    /\ contextualized_question = [t \in Threads |-> <<>>]
    /\ answer = [t \in Threads |-> None]
    /\ response = [t \in Threads |-> NoResponse]
    /\ provided = [s \in Sessions |-> <<>>]

\* a thread that can take the next request
Free(t) == pc[t] \in {"Idle", "Responded"}

\* the turns appended so far plus the POST /ask being handled
Load == now + Cardinality({ t \in Threads : ~Free(t) })

\* the handler of thread t returns resp; its locals are gone
Return(t, resp) ==
    /\ pc' = [pc EXCEPT ![t] = "Responded"]
    /\ response' = [response EXCEPT ![t] = resp]
    /\ data' = [data EXCEPT ![t] = NoBody]
    /\ question' = [question EXCEPT ![t] = None]
    /\ session_id' = [session_id EXCEPT ![t] = None]
    /\ contextualized_question' = [contextualized_question EXCEPT ![t] = <<>>]
    /\ answer' = [answer EXCEPT ![t] = None]

\* thread t moves on inside ask_question
Goto(t, label) ==
    /\ pc' = [pc EXCEPT ![t] = label]
    /\ UNCHANGED <<response, data>>

-----------------------------------------------------------------------------
(* POST /ask *)

\* a POST /ask with this body reaches thread t
AskReceive(t, body) ==
    /\ Free(t)
    /\ pc' = [pc EXCEPT ![t] = "Received"]
    /\ data' = [data EXCEPT ![t] = body]
    /\ response' = [response EXCEPT ![t] = NoResponse]
    /\ UNCHANGED <<chat_histories, now, question, session_id,
                   contextualized_question, answer, provided>>

\* app.py:99-106
AskValidate(t) ==
    /\ pc[t] = "Received"
    /\ LET out == ValidateOutcome(data[t])
       IN  CASE out.result = "reject" -> Return(t, ErrorBody(400, MISSING_QUESTION))
             [] out.result = "raise" -> Return(t, ErrorResponse(out.etype, out.msg))
             [] OTHER ->
                  /\ pc' = [pc EXCEPT ![t] = "Validated"]
                  /\ data' = [data EXCEPT ![t] = NoBody]  \* not read after line 105
                  /\ UNCHANGED response
                  /\ question' = [question EXCEPT ![t] = data[t].question]
                  /\ session_id' = [session_id EXCEPT ![t] = ResolveSession(data[t])]
                  /\ UNCHANGED <<contextualized_question, answer>>
    /\ UNCHANGED <<chat_histories, now, provided>>

\* app.py:108, the test
AskCheck(t) ==
    /\ pc[t] = "Validated"
    /\ Goto(t, IF ~In(session_id[t], chat_histories) THEN "Creating" ELSE "Fetching")
    /\ UNCHANGED <<chat_histories, now, question, session_id,
                   contextualized_question, answer, provided>>

\* app.py:109; a list cannot be indexed by a string
AskCreate(t) ==
    /\ pc[t] = "Creating"
    /\ IF chat_histories.type = "dict"
       THEN /\ chat_histories' = SetEmpty(chat_histories, session_id[t])
            /\ Goto(t, "Fetching")
            /\ UNCHANGED <<question, session_id, contextualized_question, answer>>
       ELSE /\ Return(t, ErrorResponse("TypeError", "list indices must be integers"))
            /\ UNCHANGED chat_histories
    /\ UNCHANGED <<now, provided>>

\* app.py:111-127: fetch the session's list, build the text, call the provider
AskContext(t) ==
    /\ pc[t] = "Fetching"
    /\ IF chat_histories.type # "dict"
       THEN Return(t, ErrorResponse("TypeError", "list indices must be integers"))
       ELSE IF ~In(session_id[t], chat_histories)
       THEN Return(t, ErrorResponse("KeyError", session_id[t]))
       ELSE /\ Goto(t, "ContextBuilt")
            /\ contextualized_question' =
                 [contextualized_question EXCEPT
                    ![t] = BuildContext(chat_histories.vals[session_id[t]], question[t])]
            /\ UNCHANGED <<question, session_id, answer>>
    /\ UNCHANGED <<chat_histories, now, provided>>

\* chain.invoke returns a message whose content is a
ProviderReturn(t, a) ==
    /\ pc[t] = "ContextBuilt"
    /\ Goto(t, "Answered")
    /\ answer' = [answer EXCEPT ![t] = a]
    /\ provided' = [provided EXCEPT
                      ![session_id[t]] = Append(@, [question |-> question[t], answer |-> a])]
    /\ UNCHANGED <<chat_histories, now, question, session_id,
                   contextualized_question>>

\* a handler that has recorded the question when the provider raises
ProviderFailRecording(t, msg) ==
    /\ pc[t] = "ContextBuilt"
    /\ chat_histories' = IF In(session_id[t], chat_histories)
                         THEN AppendTurn(chat_histories, session_id[t],
                                         Turn(question[t], msg, now))
                         ELSE chat_histories
    /\ Return(t, ErrorResponse("APIConnectionError", msg))
    /\ UNCHANGED <<now, provided>>

\* a handler that builds the text again and calls the provider once more
\* when the call raises
ProviderFailRetrying(t, msg) ==
    /\ pc[t] = "ContextBuilt"
    /\ Goto(t, "Fetching")
    /\ UNCHANGED <<chat_histories, now, provided, question, session_id,
                   contextualized_question, answer>>

\* chain.invoke raises; the except clause of app.py:152 answers
ProviderFail(t, msg) ==
    /\ pc[t] = "ContextBuilt"
    /\ Return(t, ErrorResponse("APIConnectionError", msg))
    /\ UNCHANGED <<chat_histories, now, provided>>

\* an append that records the text sent to the provider as the question
AskAppendContextualized(t) ==
    /\ pc[t] = "Answered"
    /\ chat_histories.type = "dict"
    /\ In(session_id[t], chat_histories)
    /\ chat_histories' = AppendTurn(chat_histories, session_id[t],
                                    Turn(contextualized_question[t][1], answer[t], now))
    /\ now' = now + 1
    /\ Goto(t, "Recorded")
    /\ UNCHANGED <<question, session_id, contextualized_question, answer, provided>>

\* app.py:132-136; the clock moves on with every turn recorded
AskAppend(t) ==
    /\ pc[t] = "Answered"
    /\ IF chat_histories.type # "dict"
       THEN /\ Return(t, ErrorResponse("TypeError", "list indices must be integers"))
            /\ UNCHANGED <<chat_histories, now>>
       ELSE IF ~In(session_id[t], chat_histories)
       THEN /\ Return(t, ErrorResponse("KeyError", session_id[t]))
            /\ UNCHANGED <<chat_histories, now>>
       ELSE /\ chat_histories' = AppendTurn(chat_histories, session_id[t],
                                            Turn(question[t], answer[t], now))
            /\ now' = now + 1
            /\ Goto(t, "Recorded")
            /\ UNCHANGED <<question, session_id, contextualized_question, answer>>
    /\ UNCHANGED provided

\* app.py:140, chat_histories[session_id:] on a dict: the slice object is
\* looked up as a key.  It is unhashable before Python 3.12 (TypeError) and
\* a key the dict does not have from 3.12 on (KeyError).
SliceLookup(store, sid) ==
    { Raise("TypeError", "unhashable type: 'slice'"),
      Raise("KeyError", "slice(sid, None, None)") }

\* app.py:139-149
AskTrim(t) ==
    /\ pc[t] = "Recorded"
    /\ IF chat_histories.type # "dict"
       THEN Return(t, ErrorResponse("TypeError", "list indices must be integers"))
       ELSE IF ~In(session_id[t], chat_histories)
       THEN Return(t, ErrorResponse("KeyError", session_id[t]))
       ELSE IF Len(chat_histories.vals[session_id[t]]) > MAX_HISTORY_LENGTH
       THEN \E out \in SliceLookup(chat_histories, session_id[t]) :
                Return(t, ErrorResponse(out.etype, out.msg))
       ELSE Return(t, AskSuccess(answer[t], session_id[t],
                                 chat_histories.vals[session_id[t]]))
    /\ UNCHANGED <<chat_histories, now, provided>>

-----------------------------------------------------------------------------
(* The one-step handlers *)

\* request.args.get('session_id', 'default_session')
QuerySession(arg) == IF arg = NoField THEN DEFAULT_SESSION ELSE arg

\* the response of get_history, app.py:170-183
HistoryResponse(store, sid) ==
    IF ~In(sid, store)
    THEN [NoResponse EXCEPT !.endpoint = "history", !.status = 200, !.count = 0,
                            !.session_id = sid,
                            !.error = <<"No chat history found for session ", sid>>]
    ELSE [NoResponse EXCEPT !.endpoint = "history", !.status = 200,
                            !.history = store.vals[sid],
                            !.count = Len(store.vals[sid]), !.session_id = sid]

\* a get_history that makes the entry it did not find
GetHistoryCreating(t, arg) ==
    /\ Free(t)
    /\ Return(t, HistoryResponse(chat_histories, QuerySession(arg)))
    /\ chat_histories' = IF chat_histories.type = "dict"
                            /\ ~In(QuerySession(arg), chat_histories)
                         THEN SetEmpty(chat_histories, QuerySession(arg))
                         ELSE chat_histories
    /\ UNCHANGED <<now, provided>>

\* GET /history, app.py:163-183
GetHistory(t, arg) ==
    /\ Free(t)
    /\ Return(t, HistoryResponse(chat_histories, QuerySession(arg)))
    /\ UNCHANGED <<chat_histories, now, provided>>

\* the response of get_sessions, app.py:191-194; a list has no keys()
SessionsResponse(store) ==
    IF store.type = "dict"
    THEN [NoResponse EXCEPT !.endpoint = "sessions", !.status = 200,
                            !.sessions = store.keys, !.count = StoreLen(store)]
    ELSE UncaughtResponse("sessions")

\* GET /sessions, app.py:185-194
GetSessions(t) ==
    /\ Free(t)
    /\ Return(t, SessionsResponse(chat_histories))
    /\ UNCHANGED <<chat_histories, now, provided>>

\* GET /generate-session, app.py:196-207
GenerateSession(t, u) ==
    /\ Free(t)
    /\ Return(t, [NoResponse EXCEPT !.endpoint = "generate-session", !.status = 200,
                                    !.session_id = u, !.ok = "success"])
    /\ UNCHANGED <<chat_histories, now, provided>>

\* POST /clear-all-history, app.py:213-226: the global becomes an empty list
ClearHistory(t) ==
    /\ Free(t)
    /\ chat_histories' = EmptyList
    /\ Return(t, [NoResponse EXCEPT !.endpoint = "clear-all-history", !.status = 200,
                                    !.ok = "success",
                                    !.count = StoreLen(chat_histories)])
    /\ provided' = [s \in Sessions |-> <<>>]
    /\ UNCHANGED now

-----------------------------------------------------------------------------
(* Specifications *)

\* Two worker threads serving requests at the same time (app.run serves each
\* request on a thread of its own): every kind of body, one answer text,
\* short runs.
Next ==
    \E t \in Threads :
        \/ \E body \in Bodies : Load < MaxAppends /\ AskReceive(t, body)
        \/ AskValidate(t)
        \/ AskCheck(t)
        \/ AskCreate(t)
        \/ AskContext(t)
        \/ ProviderReturn(t, "a1")
        \/ \E msg \in ProviderErrors : ProviderFail(t, msg)
        \/ AskAppend(t)
        \/ AskTrim(t)
        \/ \E arg \in Sessions \cup {NoField} : GetHistory(t, arg)
        \/ GetSessions(t)
        \/ \E u \in Uuids : GenerateSession(t, u)
        \/ ClearHistory(t)

Spec == Init /\ [][Next]_vars

\* the steps of ask_question a thread takes once the request is received
AskStep(t) ==
    \/ AskValidate(t)
    \/ AskCheck(t)
    \/ AskCreate(t)
    \/ AskContext(t)
    \/ ProviderReturn(t, "a1")
    \/ \E msg \in ProviderErrors : ProviderFail(t, msg)
    \/ AskAppend(t)
    \/ AskTrim(t)

\* The same two threads, each of them scheduled again and again while it
\* serves a request, with a provider whose call returns or raises in the end.
SpecFair == Spec /\ \A t \in Threads : WF_vars(AskStep(t))

\* One client that waits for each response before its next request, so that
\* one thread is at work: every kind of body, question and answer.
NextSeq ==
    \/ \E body \in Bodies : Load < MaxSeqAppends /\ AskReceive("t1", body)
    \/ AskValidate("t1")
    \/ AskCheck("t1")
    \/ AskCreate("t1")
    \/ AskContext("t1")
    \/ \E a \in Answers : ProviderReturn("t1", a)
    \/ \E msg \in ProviderErrors : ProviderFail("t1", msg)
    \/ AskAppend("t1")
    \/ AskTrim("t1")
    \/ \E arg \in Sessions \cup {NoField} : GetHistory("t1", arg)
    \/ GetSessions("t1")
    \/ \E u \in Uuids : GenerateSession("t1", u)
    \/ ClearHistory("t1")

SpecSeq == Init /\ [][NextSeq]_vars

\* The same client with one question text and one answer text, in runs long
\* enough to pass MAX_HISTORY_LENGTH.
NextLong ==
    \/ \E body \in LongBodies : Load < MaxLongAppends /\ AskReceive("t1", body)
    \/ AskValidate("t1")
    \/ AskCheck("t1")
    \/ AskCreate("t1")
    \/ AskContext("t1")
    \/ ProviderReturn("t1", "a1")
    \/ \E msg \in ProviderErrors : ProviderFail("t1", msg)
    \/ AskAppend("t1")
    \/ AskTrim("t1")
    \/ GetHistory("t1", "s1")
    \/ GetSessions("t1")
    \/ GenerateSession("t1", "uuid-a")
    \/ ClearHistory("t1")

SpecLong == Init /\ [][NextLong]_vars

\* SpecDefault: the question q1 comes without session_id, the question q2
\* with the session_id "default_session".
DefaultBodies == { JsonObject("q1", NoField), JsonObject("q2", DEFAULT_SESSION) }

\* One client that never names another session than the default one, neither
\* in /ask nor in /history.
NextDefault ==
    \/ \E body \in DefaultBodies : Load < MaxSeqAppends /\ AskReceive("t1", body)
    \/ AskValidate("t1")
    \/ AskCheck("t1")
    \/ AskCreate("t1")
    \/ AskContext("t1")
    \/ \E a \in Answers : ProviderReturn("t1", a)
    \/ \E msg \in ProviderErrors : ProviderFail("t1", msg)
    \/ AskAppend("t1")
    \/ AskTrim("t1")
    \/ GetHistory("t1", NoField)
    \/ GetSessions("t1")
    \/ \E u \in Uuids : GenerateSession("t1", u)
    \/ ClearHistory("t1")

SpecDefault == Init /\ [][NextDefault]_vars

-----------------------------------------------------------------------------
(* Properties *)

Min(a, b) == IF a < b THEN a ELSE b

\* the last n elements of seq
LastN(seq, n) == SubSeq(seq, Len(seq) - n + 1, Len(seq))

\* the question and the answer of each turn, in order
QuestionsAndAnswers(turns) ==
    [i \in 1..Len(turns) |-> [question |-> turns[i].question, answer |-> turns[i].answer]]

\* oldest first
Chronological(turns) ==
    \A i, j \in 1..Len(turns) : i < j => turns[i].timestamp < turns[j].timestamp

\* no handler is at work
AllFree == \A t \in Threads : Free(t)

\* the session ids /sessions would have to list
Known(store) == { s \in Sessions : In(s, store) }

\* every session shows the same turns in both stores
SameHistories(store1, store2) ==
    \A s \in Sessions : HistoryOf(store1, s) = HistoryOf(store2, s)

\* thread t takes a step of its handler
StepOf(t) == pc'[t] # pc[t] \/ response'[t] # response[t]

\* C1: whenever no /ask stands between its append and its length check
\* (every /ask and /clear-all-history that touched a session has completed),
\* every session holds at most MAX_HISTORY_LENGTH turns.
C1_RetentionCap ==
    (\A t \in Threads : pc[t] # "Recorded")
        => \A s \in Sessions : Len(HistoryOf(chat_histories, s)) <= MAX_HISTORY_LENGTH

\* C2: with no request at work and no clear so far, a session for which the
\* provider has answered N times holds the last min(N, MAX_HISTORY_LENGTH) of
\* those question/answer pairs, oldest first.
C2_LastTurnsKept ==
    (AllFree /\ chat_histories.type = "dict")
        => \A s \in Sessions :
              /\ QuestionsAndAnswers(HistoryOf(chat_histories, s))
                    = LastN(provided[s], Min(Len(provided[s]), MAX_HISTORY_LENGTH))
              /\ Chronological(HistoryOf(chat_histories, s))

\* clear_history has run: nothing else assigns a list (app.py:221)
Cleared == chat_histories.type = "list"

\* where an /ask stands after validation, the provider call apart
Handling == {"Validated", "Creating", "Fetching", "Answered", "Recorded"}

\* C3: once the store has been cleared, an /ask that passed validation and
\* whose provider call does not fail ends with 200 and a history of length 1
\* holding its turn, and its session is known to the store.
C3_AskAfterClear ==
    [][\A t \in Threads :
          (Cleared /\ pc[t] \in Handling /\ pc'[t] = "Responded")
              => /\ response'[t].status = 200
                 /\ Len(response'[t].history) = 1
                 /\ response'[t].history[1].question = question[t]
                 /\ response'[t].history[1].answer = answer[t]
                 /\ In(session_id[t], chat_histories')]_vars

\* C4: a /sessions that follows a /clear-all-history is answered with 200, an
\* empty list of sessions and count 0.
C4_SessionsAfterClear ==
    [][\A t \in Threads :
          (pc[t] = "Responded" /\ response[t].endpoint = "clear-all-history"
             /\ response'[t].endpoint = "sessions")
              => /\ response'[t].status = 200
                 /\ response'[t].json
                 /\ response'[t].sessions = <<>>
                 /\ response'[t].count = 0]_vars

\* where an /ask stands before its provider call has returned
BeforeAnswer == {"Received", "Validated", "Creating", "Fetching", "ContextBuilt"}

\* C5: no step that an /ask takes before its provider call has returned
\* changes the set of session ids or the turns of any session.
C5_NoMutationBeforeAnswer ==
    [][\A t \in Threads :
          (pc[t] \in BeforeAnswer /\ pc'[t] # pc[t])
              => /\ Known(chat_histories') = Known(chat_histories)
                 /\ SameHistories(chat_histories, chat_histories')]_vars

\* the tokens of a text
Tokens(text) == { text[i] : i \in 1..Len(text) }

\* resp is what ask_question answers when the provider raised
ProviderErrorResponse(resp) ==
    /\ resp.endpoint = "ask"
    /\ resp.status = 500
    /\ resp.json
    /\ \E msg \in ProviderErrors : msg \in Tokens(resp.error)

\* C6: no step of an /ask up to the return of its provider call changes the
\* turns of any session, and the step that handles the provider's failure
\* answers 500 with a JSON error that carries the provider's message.
C6_ProviderFailure ==
    [][\A t \in Threads :
          /\ (pc[t] \in BeforeAnswer /\ pc'[t] # pc[t])
                => SameHistories(chat_histories, chat_histories')
          /\ (pc[t] = "ContextBuilt" /\ pc'[t] = "Responded")
                => /\ ProviderErrorResponse(response'[t])
                   /\ chat_histories' = chat_histories]_vars

\* C6 witness: a provider failure has been answered while a session holds turns.
C6_Witness ==
    \E t \in Threads :
        /\ pc[t] = "Responded"
        /\ ProviderErrorResponse(response[t])
        /\ \E s \in Sessions : Len(HistoryOf(chat_histories, s)) >= 1

\* a JSON object without the key question, or null
NoQuestionField(d) ==
    \/ d.kind = "null"
    \/ d.kind = "object" /\ d.question = NoField

\* C7: an /ask whose body is null or an object without `question` is answered
\* 400 straight from validation (no provider call) and leaves the store, and
\* so the number of sessions, as it was.
C7_MissingQuestion ==
    [][\A t \in Threads :
          (pc[t] = "Received" /\ NoQuestionField(data[t]) /\ pc'[t] # pc[t])
              => /\ pc'[t] = "Responded"
                 /\ response'[t] = ErrorBody(400, MISSING_QUESTION)
                 /\ chat_histories' = chat_histories
                 /\ StoreLen(chat_histories') = StoreLen(chat_histories)]_vars

\* C7 witness: a 400 has been sent while the store holds a session.
C7_Witness ==
    \E t \in Threads :
        /\ pc[t] = "Responded"
        /\ response[t].endpoint = "ask"
        /\ response[t].status = 400
        /\ StoreLen(chat_histories) > 0

\* C8: an /ask whose body is not a JSON object with the key `question` is
\* answered 400 and leaves the store as it was.
C8_MalformedIs400 ==
    [][\A t \in Threads :
          (pc[t] = "Received" /\ pc'[t] # pc[t]
             /\ ~(data[t].kind = "object" /\ data[t].question # NoField))
              => /\ response'[t].status = 400
                 /\ chat_histories' = chat_histories]_vars

\* C9: a /history changes nothing in the store, is answered 200, and for a
\* session the store has no entry for shows no turns and count 0.
C9_HistoryIsPureRead ==
    [][\A t \in Threads :
          (StepOf(t) /\ Free(t) /\ response'[t].endpoint = "history")
              => /\ chat_histories' = chat_histories
                 /\ response'[t].status = 200
                 /\ response'[t].json
                 /\ ~In(response'[t].session_id, chat_histories)
                       => /\ response'[t].history = <<>>
                          /\ response'[t].count = 0]_vars

\* C9 witness: /history has been answered for a session without an entry
\* while another session has one.
C9_Witness ==
    \E t \in Threads :
        /\ pc[t] = "Responded"
        /\ response[t].endpoint = "history"
        /\ response[t].count = 0
        /\ ~In(response[t].session_id, chat_histories)
        /\ StoreLen(chat_histories) > 0

RECURSIVE QuestionThenAnswer(_)
\* question, answer, question, answer, ... of the turns in order
QuestionThenAnswer(turns) ==
    IF turns = <<>> THEN <<>>
    ELSE <<turns[1].question, turns[1].answer>> \o QuestionThenAnswer(Tail(turns))

RECURSIVE OccursInOrder(_, _)
\* the elements of parts occur in text, in the order of parts
OccursInOrder(parts, text) ==
    IF parts = <<>> THEN TRUE
    ELSE IF text = <<>> THEN FALSE
    ELSE IF parts[1] = text[1] THEN OccursInOrder(Tail(parts), Tail(text))
    ELSE OccursInOrder(parts, Tail(text))

\* text is what C10 asks of the provider's input for these turns and q
ContextHolds(text, turns, q) ==
    IF turns = <<>>
    THEN text = <<q>>
    ELSE /\ Len(text) > 0
         /\ text[Len(text)] = q
         /\ OccursInOrder(QuestionThenAnswer(turns), SubSeq(text, 1, Len(text) - 1))

\* C10: the text an /ask hands to the provider is the question alone when the
\* session holds no turns; otherwise it holds every stored turn's question and
\* then its answer, in stored order, and ends with the question.
C10_ContextText ==
    [][\A t \in Threads :
          (pc[t] = "Fetching" /\ pc'[t] = "ContextBuilt")
              => ContextHolds(contextualized_question'[t],
                              HistoryOf(chat_histories, session_id[t]),
                              question[t])]_vars

\* C10 witness: the provider is being asked on behalf of a session that holds
\* two turns with different questions.
C10_Witness ==
    \E t \in Threads :
        /\ pc[t] = "ContextBuilt"
        /\ Len(HistoryOf(chat_histories, session_id[t])) = 2
        /\ HistoryOf(chat_histories, session_id[t])[1].question
              # HistoryOf(chat_histories, session_id[t])[2].question
        /\ Len(contextualized_question[t]) > 1

\* C11: every response is a JSON body sent by the handler itself, with one
\* of the handlers' status codes.
C11_AlwaysJson ==
    \A t \in Threads :
        pc[t] = "Responded"
            => /\ response[t].json
               /\ response[t].status \in {200, 400, 500}

\* the elements of a sequence
Elements(seq) == { seq[i] : i \in 1..Len(seq) }

\* C12: with no request at work and no clear so far, a session that the
\* provider has answered for N times, 2 <= N <= MAX_HISTORY_LENGTH, holds N
\* turns, and every answered question/answer pair is among them.
C12_NoLostUpdate ==
    (AllFree /\ chat_histories.type = "dict")
        => \A s \in Sessions :
              Len(provided[s]) \in 2..MAX_HISTORY_LENGTH
                  => /\ Len(HistoryOf(chat_histories, s)) = Len(provided[s])
                     /\ Elements(provided[s])
                           \subseteq Elements(QuestionsAndAnswers(HistoryOf(chat_histories, s)))

\* the newest stored turn of the session thread t works for is t's own
OwnTurnLast(t, store, clock) ==
    LET h == HistoryOf(store, session_id[t])
    IN  /\ Len(h) > 0
        /\ h[Len(h)] = Turn(question[t], answer[t], clock - 1)

\* C13: the append of an /ask puts its turn last in its session's history,
\* and the turn is still last when the request is answered, also when the
\* session held MAX_HISTORY_LENGTH turns before.
C13_NewestTurnKept ==
    [][\A t \in Threads :
          /\ (pc[t] = "Answered" /\ pc'[t] = "Recorded")
                => /\ OwnTurnLast(t, chat_histories', now')
                   /\ Len(HistoryOf(chat_histories', session_id[t]))
                         = Len(HistoryOf(chat_histories, session_id[t])) + 1
          /\ (pc[t] = "Recorded" /\ pc'[t] = "Responded")
                => OwnTurnLast(t, chat_histories', now')]_vars

\* C13 witness: the turn of the 11th /ask on a session has been appended.
C13_Witness ==
    \E t \in Threads :
        /\ pc[t] = "Recorded"
        /\ Len(HistoryOf(chat_histories, session_id[t])) = MAX_HISTORY_LENGTH + 1
        /\ OwnTurnLast(t, chat_histories, now)

\* C14: when every /ask comes without session_id or with the session_id
\* "default_session", and every /history without parameter, then (no clear so
\* far) no other session exists, the default session holds the turns of all
\* the /ask the provider answered, and /history shows that session.
C14_DefaultSession ==
    chat_histories.type = "dict"
        => /\ KeySet(chat_histories) \subseteq {DEFAULT_SESSION}
           /\ (AllFree /\ Len(provided[DEFAULT_SESSION]) <= MAX_HISTORY_LENGTH)
                 => QuestionsAndAnswers(HistoryOf(chat_histories, DEFAULT_SESSION))
                       = provided[DEFAULT_SESSION]
           /\ \A s \in Sessions \ {DEFAULT_SESSION} : provided[s] = <<>>
           /\ \A t \in Threads :
                 (pc[t] = "Responded" /\ response[t].endpoint = "history")
                     => /\ response[t].session_id = DEFAULT_SESSION
                        /\ response[t].history = HistoryOf(chat_histories, DEFAULT_SESSION)
                        /\ response[t].count = Len(response[t].history)

\* C14 witness: /history without parameter has shown two turns, the first
\* asked without session_id (q1), the second with "default_session" (q2).
C14_Witness ==
    \E t \in Threads :
        /\ pc[t] = "Responded"
        /\ response[t].endpoint = "history"
        /\ response[t].count = 2
        /\ response[t].history[1].question = "q1"
        /\ response[t].history[2].question = "q2"

\* where an /ask stands once its session id is resolved
Addressing == {"Validated", "Creating", "Fetching", "ContextBuilt", "Answered", "Recorded"}

\* C15: no step of an /ask changes the turns of a session other than the one
\* it addresses, nor adds such a session to the store or removes it; before
\* the session id is resolved the store is not changed at all.
C15_OtherSessionsUntouched ==
    [][\A t \in Threads :
          /\ (pc[t] = "Received" /\ pc'[t] # pc[t])
                => chat_histories' = chat_histories
          /\ (pc[t] \in Addressing /\ pc'[t] # pc[t])
                => \A s \in Sessions \ {session_id[t]} :
                      /\ In(s, chat_histories') <=> In(s, chat_histories)
                      /\ HistoryOf(chat_histories', s) = HistoryOf(chat_histories, s)]_vars

\* C15 witness: an /ask has recorded its turn while another session holds turns.
C15_Witness ==
    \E t \in Threads :
        /\ pc[t] = "Recorded"
        /\ \E s \in Sessions \ {session_id[t]} : Len(HistoryOf(chat_histories, s)) >= 1

\* C16: the question an /ask works with is the one of its body from
\* validation to the response, its answer is the provider's from the return
\* of the call on, and the turn it appends holds that question (not the text
\* sent to the provider) and that answer.
C16_OriginalQuestionStored ==
    [][\A t \in Threads :
          /\ (pc[t] = "Received" /\ pc'[t] = "Validated")
                => question'[t] = data[t].question
          /\ (pc[t] \in Addressing /\ pc'[t] \in Addressing)
                => question'[t] = question[t]
          /\ (pc[t] = "ContextBuilt" /\ pc'[t] = "Answered")
                => answer'[t] \in Answers
          /\ (pc[t] = "Answered" /\ pc'[t] = "Recorded")
                => LET h == HistoryOf(chat_histories', session_id[t])
                   IN  /\ Len(h) = Len(HistoryOf(chat_histories, session_id[t])) + 1
                       /\ h[Len(h)].question = question[t]
                       /\ h[Len(h)].answer = answer[t]
                       /\ answer'[t] = answer[t]]_vars

\* C16 witness: a turn has been appended to a session with earlier turns, so
\* that the text sent to the provider was not the question alone.
C16_Witness ==
    \E t \in Threads :
        /\ pc[t] = "Recorded"
        /\ Len(HistoryOf(chat_histories, session_id[t])) >= 2
        /\ contextualized_question[t] # <<question[t]>>
        /\ OwnTurnLast(t, chat_histories, now)

\* first is the beginning of second
IsPrefix(first, second) ==
    /\ Len(first) <= Len(second)
    /\ SubSeq(second, 1, Len(first)) = first

\* C17: in every step that is not a clear, each session keeps its turns
\* unchanged and in order, new turns only coming after them; turns may go
\* only from the old end, and only when the list is left with
\* MAX_HISTORY_LENGTH turns.
C17_TurnsImmutable ==
    [][(chat_histories'.type = "dict")
          => \A s \in Sessions :
                LET h == HistoryOf(chat_histories, s)
                    g == HistoryOf(chat_histories', s)
                IN  \E k \in 0..Len(h) :
                       /\ IsPrefix(SubSeq(h, k + 1, Len(h)), g)
                       /\ k > 0 => Len(g) = MAX_HISTORY_LENGTH]_vars

\* the places an /ask may go to from each place
AskSuccessors ==
    [Received     |-> {"Validated", "Responded"},
     Validated    |-> {"Creating", "Fetching"},
     Creating     |-> {"Fetching", "Responded"},
     Fetching     |-> {"ContextBuilt", "Responded"},
     ContextBuilt |-> {"Answered", "Responded"},
     Answered     |-> {"Recorded", "Responded"},
     Recorded     |-> {"Responded"}]

\* C18: an /ask moves forward only, Received, Validated, (the session lookup,)
\* ContextBuilt, Answered, Recorded, Responded, or leaves for an error
\* response; the provider call, the step out of ContextBuilt, is reached only
\* through Validated and taken once; and every request received is responded
\* to in the end.
C18_RequestLifecycle ==
    /\ [][\A t \in Threads :
             /\ (pc[t] \in DOMAIN AskSuccessors /\ pc'[t] # pc[t])
                   => pc'[t] \in AskSuccessors[pc[t]]
             /\ (pc[t] \notin DOMAIN AskSuccessors /\ pc'[t] # pc[t])
                   => pc'[t] \in {"Received", "Responded"}]_vars
    /\ \A t \in Threads : (pc[t] = "Received") ~> (pc[t] = "Responded")

\* C18 witness: both threads are in the middle of a request, one of them
\* with the provider's answer and the other one before its provider call.
C18_Witness ==
    \E t, u \in Threads :
        /\ pc[t] = "Answered"
        /\ pc[u] = "ContextBuilt"

\* C19: once the provider has returned its answer, the /ask responds 200 with
\* that answer and the turns of its session, however many turns the session
\* holds.
C19_SuccessIs200 ==
    [][\A t \in Threads :
          (pc[t] \in {"Answered", "Recorded"} /\ pc'[t] = "Responded")
             => /\ response'[t].status = 200
                /\ response'[t].answer = answer[t]
                /\ response'[t].history = HistoryOf(chat_histories', session_id[t])]_vars

\* C20: an /ask that has appended its turn responds 200, and an /ask that
\* responds before appending responds 400 or 500 and leaves the turns of
\* every session as they are.
C20_RecordedIffSuccess ==
    [][\A t \in Threads :
          /\ (pc[t] = "Recorded" /\ pc'[t] = "Responded")
                => response'[t].status = 200
          /\ (pc[t] \in BeforeAnswer \cup {"Answered"} /\ pc'[t] = "Responded")
                => /\ response'[t].status \in {400, 500}
                   /\ SameHistories(chat_histories, chat_histories')]_vars

====
